---- MODULE Spec2Model ----
(***************************************************************************)
(* A model of src/gomoku.py: the Gomoku board, its win/draw detection, the *)
(* positional evaluator, the four move-selection strategies and the turn   *)
(* loop of Gomoku.play.                                                    *)
(***************************************************************************)
EXTENDS Integers, Sequences, FiniteSets, Bags, TLC

VARIABLES
    board_size,        \* Gomoku.board_size
    win_length,        \* Gomoku.win_length
    ai_time_limit,     \* Gomoku.ai_time_limit
    board,             \* Gomoku.board, board[row][col]
    ai_type,           \* Player.ai_type of player 1 ('X') and player 2 ('O')
    current_player,    \* Gomoku.current_player, 1 or 2
    nodes_expanded,    \* Gomoku.nodes_expanded
    pc,                \* position in play(): "setup", "loop", "search", "chosen", "done"
    outcome,           \* what play() announced when it left the loop
    search,            \* the locals of iterative_deepening while it runs
    move,              \* the local move of play(): what get_ai_move returned
    last               \* what the last pass of play() did with its move

vars == <<board_size, win_length, ai_time_limit, board, ai_type, current_player,
          nodes_expanded, pc, outcome, search, move, last>>

-----------------------------------------------------------------------------
(* Values of the program *)

Empty == "."

Inf == 100000

None == <<>>

Symbols == {"X", "O"}

AiTypes == {"random", "greedy", "worst", "expert", "other"}

PlayerTypes == {"human"} \cup AiTypes

SymbolOf(p) == IF p = 1 THEN "X" ELSE "O"

Other(p) == IF p = 1 THEN 2 ELSE 1

Max(a, b) == IF a >= b THEN a ELSE b

Min(a, b) == IF a <= b THEN a ELSE b

Abs(a) == IF a < 0 THEN -a ELSE a

Rng == 0 .. (board_size - 1)

EmptyBoard(n) == [r \in 0 .. (n - 1) |-> [c \in 0 .. (n - 1) |-> Empty]]

InBounds(row, col) ==
    0 <= row /\ row < board_size /\ 0 <= col /\ col < board_size

-----------------------------------------------------------------------------
(* Board State *)

is_valid_move(b, row, col) == InBounds(row, col) /\ b[row][col] = Empty

Place(b, symbol, row, col) == [b EXCEPT ![row][col] = symbol]

(* Retract resetting the cell to a blank instead of '.' *)
Retract_blank(b, row, col) == [b EXCEPT ![row][col] = " "]

Retract(b, row, col) == [b EXCEPT ![row][col] = Empty]

(* make_move checking the bounds only: an occupied cell is overwritten *)
make_move_bounds_only(b, symbol, row, col) ==
    IF InBounds(row, col)
    THEN [board |-> Place(b, symbol, row, col), ok |-> TRUE]
    ELSE [board |-> b, ok |-> FALSE]

make_move(b, symbol, row, col) ==
    IF is_valid_move(b, row, col)
    THEN [board |-> Place(b, symbol, row, col), ok |-> TRUE]
    ELSE [board |-> b, ok |-> FALSE]

Count(b, symbol) ==
    Cardinality({x \in Rng \X Rng : b[x[1]][x[2]] = symbol})

is_full(b) == \A r \in Rng : \A c \in Rng : b[r][c] # Empty

-----------------------------------------------------------------------------
(* Win detection *)

RECURSIVE check_direction_loop(_, _, _, _, _, _, _, _)
check_direction_loop(b, row, col, row_delta, col_delta, symbol, k, count) ==
    IF k = win_length THEN count
    ELSE IF InBounds(row, col) /\ b[row][col] = symbol
         THEN check_direction_loop(b, row + row_delta, col + col_delta,
                                   row_delta, col_delta, symbol, k + 1, count + 1)
         ELSE count

check_direction(b, row, col, row_delta, col_delta, symbol) ==
    check_direction_loop(b, row, col, row_delta, col_delta, symbol, 0, 0) = win_length

(* check_win without the scan along (1, -1) *)
check_win_three_axes(b, symbol) ==
    \E row \in Rng : \E col \in Rng :
        \/ check_direction(b, row, col, 1, 0, symbol)
        \/ check_direction(b, row, col, 0, 1, symbol)
        \/ check_direction(b, row, col, 1, 1, symbol)

check_win(b, symbol) ==
    \E row \in Rng : \E col \in Rng :
        \/ check_direction(b, row, col, 1, 0, symbol)
        \/ check_direction(b, row, col, 0, 1, symbol)
        \/ check_direction(b, row, col, 1, 1, symbol)
        \/ check_direction(b, row, col, 1, -1, symbol)

-----------------------------------------------------------------------------
(* Positional evaluator *)

Directions == {<<1, 0>>, <<0, 1>>, <<1, 1>>, <<1, -1>>}

Neighbours == {<<1, 0>>, <<0, 1>>, <<1, 1>>, <<1, -1>>,
               <<-1, -1>>, <<-1, 1>>, <<-1, 0>>, <<0, -1>>}

Window == (1 - win_length) .. (win_length - 1)

count_aligned(b, row, col, symbol) ==
    Cardinality({x \in Directions \X Window :
        LET r == row + x[1][1] * x[2]
            c == col + x[1][2] * x[2]
        IN  InBounds(r, c) /\ b[r][c] = symbol})

(* count_adjacent_spaces looking at the four diagonal neighbours only *)
count_adjacent_spaces_diagonal(b, row, col) ==
    Cardinality({d \in {<<1, 1>>, <<1, -1>>, <<-1, -1>>, <<-1, 1>>} :
        LET r == row + d[1]
            c == col + d[2]
        IN  InBounds(r, c) /\ b[r][c] = Empty})

count_adjacent_spaces(b, row, col) ==
    Cardinality({d \in Neighbours :
        LET r == row + d[1]
            c == col + d[2]
        IN  InBounds(r, c) /\ b[r][c] = Empty})

potential_extension(b, row, col, symbol) ==
    Cardinality({x \in Directions \X Window :
        LET r == row + x[1][1] * x[2]
            c == col + x[1][2] * x[2]
        IN  InBounds(r, c) /\ (b[r][c] = symbol \/ b[r][c] = Empty)})

CenterBonus == 5

(* cell_score without the centre term *)
cell_score_no_center(b, row, col, symbol) ==
    LET opponent_symbol == IF symbol = "O" THEN "X" ELSE "O"
    IN  IF b[row][col] = symbol
        THEN count_aligned(b, row, col, symbol)
             + count_adjacent_spaces(b, row, col)
             + potential_extension(b, row, col, symbol)
        ELSE IF b[row][col] = opponent_symbol
             THEN 0 - count_aligned(b, row, col, opponent_symbol)
             ELSE 0

cell_score(b, row, col, symbol) ==
    LET opponent_symbol == IF symbol = "O" THEN "X" ELSE "O"
        center == board_size \div 2
    IN  IF b[row][col] = symbol
        THEN count_aligned(b, row, col, symbol)
             + Max(0, CenterBonus - (Abs(row - center) + Abs(col - center)))
             + count_adjacent_spaces(b, row, col)
             + potential_extension(b, row, col, symbol)
        ELSE IF b[row][col] = opponent_symbol
             THEN 0 - count_aligned(b, row, col, opponent_symbol)
             ELSE 0

(* The loops of lines 127-140 add cell_score over the cells of symbol and   *)
(* subtract it over the cells of the opponent; an empty cell adds nothing.  *)
(* The score is a sum of integers, so the order of the scan does not        *)
(* matter: each sum is taken as the size of a bag that holds every cell as  *)
(* often as it scores.                                                      *)
evaluate_board(b, symbol) ==
    LET opponent_symbol == IF symbol = "O" THEN "X" ELSE "O"
    IN  BagCardinality([x \in {y \in Rng \X Rng : b[y[1]][y[2]] = symbol} |->
                            cell_score(b, x[1], x[2], symbol)])
        - BagCardinality([x \in {y \in Rng \X Rng : b[y[1]][y[2]] = opponent_symbol} |->
                              0 - cell_score(b, x[1], x[2], symbol)])

-----------------------------------------------------------------------------
(* Search Controller: alpha-beta minimax.                                  *)
(* The board, the expanded-node counter and the clock are threaded through *)
(* the recursion. fuel is the number of clock polls of line 364 that still *)
(* read a time within the limit (NoExpiry: every poll does); cut records   *)
(* that a poll read a time past the limit. Two history counters ride       *)
(* along: visited, the cells minimax has placed and recursed on, and late, *)
(* those among them visited in a node where beta <= alpha had held before. *)

NoExpiry == 0 - 1

RECURSIVE minimax(_, _, _, _, _, _, _)
RECURSIVE minimax_loop(_, _, _, _, _, _)

(* minimax_visit with the retraction after the prune check: a break skips it *)
minimax_visit_break_first(s, row, col, depth, maximizing_player, symbol, opponent_symbol) ==
    LET placed == Place(s.board, IF maximizing_player THEN symbol ELSE opponent_symbol,
                        row, col)
        r == minimax([board |-> placed, fuel |-> s.fuel, cut |-> s.cut,
                      nodes |-> s.nodes, visited |-> s.visited, late |-> s.late],
                     depth - 1, s.alpha, s.beta, ~maximizing_player, symbol,
                     opponent_symbol)
        best_value == IF maximizing_player THEN Max(s.best_value, r.value)
                                           ELSE Min(s.best_value, r.value)
        alpha == IF maximizing_player THEN Max(s.alpha, r.value) ELSE s.alpha
        beta == IF maximizing_player THEN s.beta ELSE Min(s.beta, r.value)
        pruned == beta <= alpha
    IN  [board |-> IF pruned THEN r.board ELSE Retract(r.board, row, col),
         best_value |-> best_value, alpha |-> alpha, beta |-> beta,
         fuel |-> r.fuel, cut |-> r.cut,
         nodes |-> IF pruned THEN r.nodes ELSE r.nodes + 1,
         visited |-> r.visited + 1,
         late |-> IF s.pruned THEN r.late + 1 ELSE r.late,
         pruned |-> pruned]

(* minimax_visit with a minimizing node raising alpha instead of lowering beta *)
minimax_visit_wrong_bound(s, row, col, depth, maximizing_player, symbol, opponent_symbol) ==
    LET placed == Place(s.board, IF maximizing_player THEN symbol ELSE opponent_symbol,
                        row, col)
        r == minimax([board |-> placed, fuel |-> s.fuel, cut |-> s.cut,
                      nodes |-> s.nodes, visited |-> s.visited, late |-> s.late],
                     depth - 1, s.alpha, s.beta, ~maximizing_player, symbol,
                     opponent_symbol)
        best_value == IF maximizing_player THEN Max(s.best_value, r.value)
                                           ELSE Min(s.best_value, r.value)
        alpha == Max(s.alpha, r.value)
        beta == IF maximizing_player THEN s.beta ELSE Min(s.beta, r.value)
        pruned == beta <= alpha
    IN  [board |-> Retract(r.board, row, col),
         best_value |-> best_value, alpha |-> alpha, beta |-> beta,
         fuel |-> r.fuel, cut |-> r.cut,
         nodes |-> IF pruned THEN r.nodes ELSE r.nodes + 1,
         visited |-> r.visited + 1,
         late |-> IF s.pruned THEN r.late + 1 ELSE r.late,
         pruned |-> pruned]

minimax_visit(s, row, col, depth, maximizing_player, symbol, opponent_symbol) ==
    LET placed == Place(s.board, IF maximizing_player THEN symbol ELSE opponent_symbol,
                        row, col)
        r == minimax([board |-> placed, fuel |-> s.fuel, cut |-> s.cut,
                      nodes |-> s.nodes, visited |-> s.visited, late |-> s.late],
                     depth - 1, s.alpha, s.beta, ~maximizing_player, symbol,
                     opponent_symbol)
        best_value == IF maximizing_player THEN Max(s.best_value, r.value)
                                           ELSE Min(s.best_value, r.value)
        alpha == IF maximizing_player THEN Max(s.alpha, r.value) ELSE s.alpha
        beta == IF maximizing_player THEN s.beta ELSE Min(s.beta, r.value)
        pruned == beta <= alpha
    IN  [board |-> Retract(r.board, row, col),
         best_value |-> best_value, alpha |-> alpha, beta |-> beta,
         fuel |-> r.fuel, cut |-> r.cut,
         nodes |-> IF pruned THEN r.nodes ELSE r.nodes + 1,
         visited |-> r.visited + 1,
         late |-> IF s.pruned THEN r.late + 1 ELSE r.late,
         pruned |-> pruned]

minimax_loop(s, i, depth, maximizing_player, symbol, opponent_symbol) ==
    IF i >= board_size * board_size THEN s
    ELSE LET row == i \div board_size
             col == i % board_size
         IN  IF is_valid_move(s.board, row, col)
             THEN LET t == minimax_visit(s, row, col, depth, maximizing_player,
                                         symbol, opponent_symbol)
                  IN  minimax_loop(t,
                          IF t.pruned THEN (row + 1) * board_size ELSE i + 1,
                          depth, maximizing_player, symbol, opponent_symbol)
             ELSE minimax_loop(s, i + 1, depth, maximizing_player, symbol,
                               opponent_symbol)

minimax(s, depth, alpha, beta, maximizing_player, symbol, opponent_symbol) ==
    IF depth = 0 \/ is_full(s.board)
    THEN [board |-> s.board, value |-> evaluate_board(s.board, symbol),
          fuel |-> s.fuel, cut |-> s.cut, nodes |-> s.nodes,
          visited |-> s.visited, late |-> s.late]
    ELSE IF s.fuel = 0
    THEN [board |-> s.board, value |-> evaluate_board(s.board, symbol),
          fuel |-> 0, cut |-> TRUE, nodes |-> s.nodes,
          visited |-> s.visited, late |-> s.late]
    ELSE LET s0 == [board |-> s.board,
                    best_value |-> IF maximizing_player THEN -Inf ELSE Inf,
                    alpha |-> alpha, beta |-> beta,
                    fuel |-> IF s.fuel = NoExpiry THEN NoExpiry ELSE s.fuel - 1,
                    cut |-> s.cut, nodes |-> s.nodes, visited |-> s.visited,
                    late |-> s.late, pruned |-> FALSE]
             t == minimax_loop(s0, 0, depth, maximizing_player, symbol, opponent_symbol)
         IN  [board |-> t.board, value |-> t.best_value,
              fuel |-> t.fuel, cut |-> t.cut, nodes |-> t.nodes,
              visited |-> t.visited, late |-> t.late]

-----------------------------------------------------------------------------
(* One-ply strategies. Each returns the board it leaves behind with its    *)
(* move (None: no move).                                                   *)

ValidMoves(b) == {x \in Rng \X Rng : is_valid_move(b, x[1], x[2])}

random_ai(b) ==
    IF ValidMoves(b) = {} THEN {[board |-> b, move |-> None]}
    ELSE {[board |-> b, move |-> x] : x \in ValidMoves(b)}

(* greedy_visit letting a later cell of equal score replace the kept one *)
greedy_visit_last_tie(s, row, col, symbol) ==
    LET placed == Place(s.board, symbol, row, col)
        score == evaluate_board(placed, symbol)
        better == score >= s.best_score
    IN  [board |-> Retract(placed, row, col),
         best_score |-> IF better THEN score ELSE s.best_score,
         best_move |-> IF better THEN <<row, col>> ELSE s.best_move]

greedy_visit(s, row, col, symbol) ==
    LET placed == Place(s.board, symbol, row, col)
        score == evaluate_board(placed, symbol)
        better == score > s.best_score
    IN  [board |-> Retract(placed, row, col),
         best_score |-> IF better THEN score ELSE s.best_score,
         best_move |-> IF better THEN <<row, col>> ELSE s.best_move]

RECURSIVE greedy_row(_, _, _, _)
greedy_row(s, row, col, symbol) ==
    IF col >= board_size THEN s
    ELSE IF is_valid_move(s.board, row, col)
         THEN greedy_row(greedy_visit(s, row, col, symbol), row, col + 1, symbol)
         ELSE greedy_row(s, row, col + 1, symbol)

(* the row loop; a row without a valid cell is passed over, as its column *)
(* loop visits nothing                                                    *)
RECURSIVE greedy_loop(_, _, _)
greedy_loop(s, row, symbol) ==
    IF row >= board_size THEN s
    ELSE IF \A col \in Rng : ~is_valid_move(s.board, row, col)
         THEN greedy_loop(s, row + 1, symbol)
         ELSE greedy_loop(greedy_row(s, row, 0, symbol), row + 1, symbol)

(* greedy_ai with best_score starting from 0 instead of float('-inf') *)
greedy_ai_from_zero(b, symbol) ==
    LET t == greedy_loop([board |-> b, best_score |-> 0, best_move |-> None],
                         0, symbol)
    IN  [board |-> t.board, move |-> t.best_move]

greedy_ai(b, symbol) ==
    LET t == greedy_loop([board |-> b, best_score |-> -Inf, best_move |-> None],
                         0, symbol)
    IN  [board |-> t.board, move |-> t.best_move]

worst_visit(s, row, col, opponent_symbol) ==
    LET placed == Place(s.board, opponent_symbol, row, col)
        score == evaluate_board(placed, opponent_symbol)
        worse == score < s.worst_score
    IN  [board |-> Retract(placed, row, col),
         worst_score |-> IF worse THEN score ELSE s.worst_score,
         worst_move |-> IF worse THEN <<row, col>> ELSE s.worst_move]

RECURSIVE worst_row(_, _, _, _)
worst_row(s, row, col, opponent_symbol) ==
    IF col >= board_size THEN s
    ELSE IF is_valid_move(s.board, row, col)
         THEN worst_row(worst_visit(s, row, col, opponent_symbol), row, col + 1,
                        opponent_symbol)
         ELSE worst_row(s, row, col + 1, opponent_symbol)

(* the row loop, as in greedy_loop *)
RECURSIVE worst_loop(_, _, _)
worst_loop(s, row, opponent_symbol) ==
    IF row >= board_size THEN s
    ELSE IF \A col \in Rng : ~is_valid_move(s.board, row, col)
         THEN worst_loop(s, row + 1, opponent_symbol)
         ELSE worst_loop(worst_row(s, row, 0, opponent_symbol), row + 1,
                         opponent_symbol)

worst_ai(b, opponent_symbol) ==
    LET t == worst_loop([board |-> b, worst_score |-> Inf, worst_move |-> None],
                        0, opponent_symbol)
    IN  [board |-> t.board, move |-> t.worst_move]

(* get_ai_move handing worst_ai the acting player's own symbol *)
get_ai_move_worst_own(b, type, symbol, opponent_symbol) ==
    IF type = "random" THEN random_ai(b)
    ELSE IF type = "greedy" THEN {greedy_ai(b, symbol)}
    ELSE IF type = "worst" THEN {worst_ai(b, symbol)}
    ELSE {[board |-> b, move |-> None]}

(* get_ai_move for the tags answered in one call (iterative_deepening is   *)
(* stepped through by the Expert actions below).                           *)
get_ai_move(b, type, symbol, opponent_symbol) ==
    IF type = "random" THEN random_ai(b)
    ELSE IF type = "greedy" THEN {greedy_ai(b, symbol)}
    ELSE IF type = "worst" THEN {worst_ai(b, opponent_symbol)}
    ELSE {[board |-> b, move |-> None]}

-----------------------------------------------------------------------------
(* Search Controller: one sweep of iterative_deepening's while loop.       *)

sweep_visit(s, row, col, depth, symbol, opponent_symbol) ==
    LET placed == Place(s.board, symbol, row, col)
        r == minimax([board |-> placed, fuel |-> s.fuel, cut |-> s.cut,
                      nodes |-> s.nodes, visited |-> s.visited, late |-> s.late],
                     depth - 1, -Inf, Inf, FALSE, symbol, opponent_symbol)
        better == r.value > s.current_best_score
    IN  [board |-> Retract(r.board, row, col),
         current_best_score |-> IF better THEN r.value ELSE s.current_best_score,
         current_best_move |-> IF better THEN <<row, col>> ELSE s.current_best_move,
         fuel |-> r.fuel, cut |-> r.cut, nodes |-> r.nodes,
         visited |-> r.visited, late |-> r.late]

RECURSIVE sweep_loop(_, _, _, _, _)
sweep_loop(s, i, depth, symbol, opponent_symbol) ==
    IF i >= board_size * board_size THEN s
    ELSE LET row == i \div board_size
             col == i % board_size
         IN  IF is_valid_move(s.board, row, col)
             THEN sweep_loop(sweep_visit(s, row, col, depth, symbol, opponent_symbol),
                             i + 1, depth, symbol, opponent_symbol)
             ELSE sweep_loop(s, i + 1, depth, symbol, opponent_symbol)

sweep(b, depth, symbol, opponent_symbol, fuel, nodes, visited, late) ==
    sweep_loop([board |-> b, current_best_score |-> -Inf, current_best_move |-> None,
                fuel |-> fuel, cut |-> FALSE, nodes |-> nodes,
                visited |-> visited, late |-> late],
               0, depth, symbol, opponent_symbol)

-----------------------------------------------------------------------------
(* Bounds of the model *)

\* iterative_deepening starts no sweep deeper than this
MaxDepth == 4

\* a sweep's deadline passes after at most this many clock polls, or not at all
MaxFuel == 1

\* the values read for ai_time_limit: none at all and some
TimeLimitInputs == {0, 1}

\* <<board_size, win_length>> of the games played
Sizes == {<<2, 2>>, <<3, 3>>}

\* the board sizes on which a game may have an "expert" player
ExpertSizes == {2}

DefaultTimeLimit == 2

\* the time limits tried: only iterative_deepening and minimax read the limit
TimeLimits(t1, t2) ==
    IF "expert" \in {t1, t2} THEN TimeLimitInputs
    ELSE {CHOOSE l \in TimeLimitInputs : l > 0}

\* the boards one AI turn is tried on have at most this many empty cells
MaxEmpty == 4

FuelChoices == (0 .. MaxFuel) \cup {NoExpiry}

HumanInputs == (-1 .. board_size) \X (-1 .. board_size)

-----------------------------------------------------------------------------
(* Game Orchestrator: Gomoku.play *)

Idle == [depth |-> 0, best_move |-> None, best_score |-> -Inf, elapsed |-> 0,
         current_best_move |-> None, cut |-> FALSE, prev_best |-> None,
         visited |-> 0, late |-> 0]

Win(p) == IF p = 1 THEN "WinX" ELSE "WinO"

Init ==
    /\ \E sz \in Sizes : board_size = sz[1] /\ win_length = sz[2]
    /\ ai_time_limit = DefaultTimeLimit
    /\ board = EmptyBoard(board_size)
    /\ ai_type = <<"unset", "unset">>
    /\ current_player = 0
    /\ nodes_expanded = 0
    /\ pc = "setup"
    /\ outcome = "InProgress"
    /\ search = Idle
    /\ move = None
    /\ last = "none"

(* the automatic first move put on the corner cell *)
opening_corner(b, player1_type) ==
    IF player1_type # "human"
    THEN [board |-> make_move(b, "X", 0, 0).board, last |-> "opening"]
    ELSE [board |-> b, last |-> "none"]

(* lines 209-213: the automatic first move *)
opening(b, player1_type) ==
    LET center == board_size \div 2
    IN  IF player1_type # "human"
        THEN [board |-> make_move(b, "X", center, center).board, last |-> "opening"]
        ELSE [board |-> b, last |-> "none"]

(* lines 197-213 *)
Configure ==
    /\ pc = "setup"
    /\ \E t1 \in PlayerTypes, t2 \in PlayerTypes, limit \in TimeLimitInputs :
        /\ ("expert" \in {t1, t2}) => board_size \in ExpertSizes
        /\ limit \in TimeLimits(t1, t2)
        /\ ai_time_limit' = limit
        /\ ai_type' = <<t1, t2>>
        /\ board' = opening(board, t1).board
        /\ last' = opening(board, t1).last
    /\ current_player' = 1
    /\ pc' = "loop"
    /\ UNCHANGED <<board_size, win_length, nodes_expanded, outcome, search, move>>

(* play_move testing is_full before check_win *)
play_move_draw_first(b, p, row, col) ==
    LET m == make_move(b, SymbolOf(p), row, col)
    IN  IF m.ok
        THEN IF is_full(m.board)
             THEN [board |-> m.board, pc |-> "done", outcome |-> "Draw",
                   current_player |-> p, last |-> "applied"]
             ELSE IF check_win(m.board, SymbolOf(p))
             THEN [board |-> m.board, pc |-> "done", outcome |-> Win(p),
                   current_player |-> p, last |-> "applied"]
             ELSE [board |-> m.board, pc |-> "loop", outcome |-> "InProgress",
                   current_player |-> Other(p), last |-> "applied"]
        ELSE [board |-> m.board, pc |-> "loop", outcome |-> "InProgress",
              current_player |-> p, last |-> "rejected"]

(* play_move checking the win for the player who did not move *)
play_move_checks_other(b, p, row, col) ==
    LET m == make_move(b, SymbolOf(p), row, col)
    IN  IF m.ok
        THEN IF check_win(m.board, SymbolOf(Other(p)))
             THEN [board |-> m.board, pc |-> "done", outcome |-> Win(Other(p)),
                   current_player |-> p, last |-> "applied"]
             ELSE IF is_full(m.board)
             THEN [board |-> m.board, pc |-> "done", outcome |-> "Draw",
                   current_player |-> p, last |-> "applied"]
             ELSE [board |-> m.board, pc |-> "loop", outcome |-> "InProgress",
                   current_player |-> Other(p), last |-> "applied"]
        ELSE [board |-> m.board, pc |-> "loop", outcome |-> "InProgress",
              current_player |-> p, last |-> "rejected"]

(* lines 236-249: apply the move, check win, then draw, then switch *)
play_move(b, p, row, col) ==
    LET m == make_move(b, SymbolOf(p), row, col)
    IN  IF m.ok
        THEN IF check_win(m.board, SymbolOf(p))
             THEN [board |-> m.board, pc |-> "done", outcome |-> Win(p),
                   current_player |-> p, last |-> "applied"]
             ELSE IF is_full(m.board)
             THEN [board |-> m.board, pc |-> "done", outcome |-> "Draw",
                   current_player |-> p, last |-> "applied"]
             ELSE [board |-> m.board, pc |-> "loop", outcome |-> "InProgress",
                   current_player |-> Other(p), last |-> "applied"]
        ELSE [board |-> m.board, pc |-> "loop", outcome |-> "InProgress",
              current_player |-> p, last |-> "rejected"]

Played(row, col) ==
    \E t \in {play_move(board, current_player, row, col)} :
        /\ board' = t.board
        /\ pc' = t.pc
        /\ outcome' = t.outcome
        /\ current_player' = t.current_player
        /\ last' = t.last

(* lines 227-249 with a well-formed input *)
HumanTurn ==
    /\ pc = "loop"
    /\ ai_type[current_player] = "human"
    /\ \E x \in HumanInputs : Played(x[1], x[2])
    /\ UNCHANGED <<board_size, win_length, ai_time_limit, ai_type, nodes_expanded,
                   search, move>>

(* lines 219-226 for a player whose get_ai_move answers in one call *)
AIChoose ==
    /\ pc = "loop"
    /\ ai_type[current_player] \in AiTypes \ {"expert"}
    /\ \E g \in get_ai_move(board, ai_type[current_player], SymbolOf(current_player),
                            SymbolOf(Other(current_player))) :
        /\ board' = g.board
        /\ move' = g.move
        /\ IF g.move # None
           THEN pc' = "chosen" /\ UNCHANGED <<outcome, last>>
           ELSE pc' = "done" /\ outcome' = "NoValidMoves" /\ last' = "nomove"
    /\ UNCHANGED <<board_size, win_length, ai_time_limit, ai_type, current_player,
                   nodes_expanded, search>>

(* lines 325-328: iterative_deepening is entered *)
ExpertBegin ==
    /\ pc = "loop"
    /\ ai_type[current_player] = "expert"
    /\ pc' = "search"
    /\ search' = [Idle EXCEPT !.depth = 1]
    /\ UNCHANGED <<board_size, win_length, ai_time_limit, board, ai_type,
                   current_player, nodes_expanded, outcome, move, last>>

(* a clock that runs back to the start when it has reached the limit *)
Tick_running_back ==
    /\ pc = "search"
    /\ search.elapsed <= ai_time_limit
    /\ search' = [search EXCEPT !.elapsed = IF @ >= ai_time_limit THEN 0 ELSE @ + 1]
    /\ UNCHANGED <<board_size, win_length, ai_time_limit, board, ai_type,
                   current_player, nodes_expanded, pc, outcome, move, last>>

(* the clock advances while iterative_deepening runs *)
Tick ==
    /\ pc = "search"
    /\ search.elapsed <= ai_time_limit
    /\ search' = [search EXCEPT !.elapsed = @ + 1]
    /\ UNCHANGED <<board_size, win_length, ai_time_limit, board, ai_type,
                   current_player, nodes_expanded, pc, outcome, move, last>>

(* lines 330-347: one pass of the while loop *)
after_sweep(sr, t) ==
    [depth |-> sr.depth + 1,
     best_move |-> IF t.current_best_move # None THEN t.current_best_move
                   ELSE sr.best_move,
     best_score |-> IF t.current_best_move # None THEN t.current_best_score
                    ELSE sr.best_score,
     elapsed |-> IF t.cut THEN ai_time_limit + 1 ELSE sr.elapsed,
     current_best_move |-> t.current_best_move,
     cut |-> t.cut,
     prev_best |-> sr.best_move,
     visited |-> t.visited,
     late |-> t.late]

ExpertSweep ==
    /\ pc = "search"
    /\ search.elapsed < ai_time_limit
    /\ search.depth <= MaxDepth
    /\ \E fuel \in FuelChoices :
        \E t \in {sweep(board, search.depth, SymbolOf(current_player),
                       SymbolOf(Other(current_player)), fuel, nodes_expanded,
                       search.visited, search.late)} :
            /\ board' = t.board
            /\ nodes_expanded' = t.nodes
            /\ search' = after_sweep(search, t)
    /\ UNCHANGED <<board_size, win_length, ai_time_limit, ai_type, current_player,
                   pc, outcome, move, last>>

(* line 349, then lines 221-226 *)
ExpertReturn ==
    /\ pc = "search"
    /\ ~(search.elapsed < ai_time_limit)
    /\ move' = search.best_move
    /\ IF search.best_move # None
       THEN pc' = "chosen" /\ UNCHANGED <<outcome, last>>
       ELSE pc' = "done" /\ outcome' = "NoValidMoves" /\ last' = "nomove"
    /\ UNCHANGED <<board_size, win_length, ai_time_limit, board, ai_type,
                   current_player, nodes_expanded, search>>

(* lines 236-249 with the move get_ai_move returned *)
ApplyMove ==
    /\ pc = "chosen"
    /\ Played(move[1], move[2])
    /\ move' = None
    /\ search' = Idle
    /\ UNCHANGED <<board_size, win_length, ai_time_limit, ai_type, nodes_expanded>>

Next ==
    \/ Configure
    \/ HumanTurn
    \/ AIChoose
    \/ ExpertBegin
    \/ Tick
    \/ ExpertSweep
    \/ ExpertReturn
    \/ ApplyMove

Spec == Init /\ [][Next]_vars

(* play() is one sequential program: until it has left the loop it takes  *)
(* its next step (a human's input permitting), and the clock read by       *)
(* iterative_deepening advances.                                           *)
SpecFair ==
    /\ Spec
    /\ WF_vars(Configure)
    /\ WF_vars(ExpertBegin)
    /\ WF_vars(Tick)
    /\ WF_vars(ExpertReturn)
    /\ WF_vars(ApplyMove)
    /\ ([]<>(pc = "done") \/ []<><<Next>>_vars)

-----------------------------------------------------------------------------
(* One AI turn of player 1 on a drawn 3x3 board. The boards are those a    *)
(* game can show when AI-controlled 'X' is to move: the opening mark on    *)
(* the centre, one 'X' more than 'O', no line completed yet.               *)

\* <<board_size, win_length>> of the boards drawn
TurnShape == <<3, 3>>

TurnBoards ==
    {b \in [0 .. (TurnShape[1] - 1) -> [0 .. (TurnShape[1] - 1) -> {Empty, "X", "O"}]] :
        /\ b[TurnShape[1] \div 2][TurnShape[1] \div 2] = "X"
        /\ Count(b, Empty) \in 1 .. MaxEmpty
        /\ Count(b, "X") = Count(b, "O") + 1
        /\ ~check_win(b, "X")
        /\ ~check_win(b, "O")}

InitTurn ==
    /\ board_size = TurnShape[1]
    /\ win_length = TurnShape[2]
    /\ board \in TurnBoards
    /\ \E t \in AiTypes :
        /\ ai_type = <<t, "human">>
        /\ ai_time_limit \in TimeLimits(t, "human")
    /\ current_player = 1
    /\ nodes_expanded = 0
    /\ pc = "loop"
    /\ outcome = "InProgress"
    /\ search = Idle
    /\ move = None
    /\ last = "applied"

NextTurn ==
    \/ AIChoose
    \/ ExpertBegin
    \/ Tick
    \/ ExpertSweep
    \/ ExpertReturn
    \/ ApplyMove

SpecTurn == InitTurn /\ [][NextTurn]_vars

-----------------------------------------------------------------------------
(* Boards at large: marks of either symbol written by make_move in any     *)
(* order, for the functions of a board alone.                              *)

\* at most this many marks are written
MaxMarks == 4

\* <<board_size, win_length>> of the boards written
BoardShapes == {<<3, 2>>, <<3, 3>>, <<4, 3>>}

InitBoard ==
    /\ \E sz \in BoardShapes : board_size = sz[1] /\ win_length = sz[2]
    /\ ai_time_limit = DefaultTimeLimit
    /\ board = EmptyBoard(board_size)
    /\ ai_type = <<"unset", "unset">>
    /\ current_player = 0
    /\ nodes_expanded = 0
    /\ pc = "setup"
    /\ outcome = "InProgress"
    /\ search = Idle
    /\ move = None
    /\ last = "none"

WriteMark ==
    /\ Count(board, Empty) > board_size * board_size - MaxMarks
    /\ \E symbol \in Symbols, row \in Rng, col \in Rng :
        \E m \in {make_move(board, symbol, row, col)} :
            /\ m.ok
            /\ board' = m.board
    /\ UNCHANGED <<board_size, win_length, ai_time_limit, ai_type, current_player,
                   nodes_expanded, pc, outcome, search, move, last>>

SpecBoard == InitBoard /\ [][WriteMark]_vars

-----------------------------------------------------------------------------
(* One call of get_ai_move for a one-call strategy on a board at large:    *)
(* marks of either symbol are written in any order, then the player to     *)
(* move asks its strategy.                                                 *)

\* <<board_size, win_length, marks written at most>> of the boards asked on
AskShapes == {<<2, 2, 2 * 2>>, <<3, 3, MaxMarks>>, <<15, 5, 0>>}

InitAsk ==
    /\ \E sz \in AskShapes : board_size = sz[1] /\ win_length = sz[2]
    /\ ai_time_limit = DefaultTimeLimit
    /\ board = EmptyBoard(board_size)
    /\ \E t \in AiTypes \ {"expert"} : ai_type = <<t, t>>
    /\ current_player \in {1, 2}
    /\ nodes_expanded = 0
    /\ pc = "loop"
    /\ outcome = "InProgress"
    /\ search = Idle
    /\ move = None
    /\ last = "none"

PlaceMark ==
    /\ pc = "loop"
    /\ \E sz \in AskShapes :
        /\ sz[1] = board_size
        /\ Count(board, Empty) > board_size * board_size - sz[3]
    /\ \E symbol \in Symbols, row \in Rng, col \in Rng :
        \E m \in {make_move(board, symbol, row, col)} :
            /\ m.ok
            /\ board' = m.board
    /\ UNCHANGED <<board_size, win_length, ai_time_limit, ai_type, current_player,
                   nodes_expanded, pc, outcome, search, move, last>>

NextAsk ==
    \/ PlaceMark
    \/ AIChoose

SpecAsk == InitAsk /\ [][NextAsk]_vars

-----------------------------------------------------------------------------
(* Reference definitions used by the properties *)

\* plain minimax: every valid cell of every node is searched, nothing is pruned
RECURSIVE plain_minimax(_, _, _, _, _)
plain_minimax(b, depth, maximizing_player, symbol, opponent_symbol) ==
    IF depth = 0 \/ is_full(b) THEN evaluate_board(b, symbol)
    ELSE LET values == {plain_minimax(
                            Place(b, IF maximizing_player THEN symbol
                                     ELSE opponent_symbol, x[1], x[2]),
                            depth - 1, ~maximizing_player, symbol, opponent_symbol) :
                        x \in ValidMoves(b)}
         IN  IF maximizing_player
             THEN CHOOSE v \in values : \A w \in values : w <= v
             ELSE CHOOSE v \in values : \A w \in values : v <= w

RowMajor(x) == x[1] * board_size + x[2]

\* the move of a root sweep over plain minimax, ties to the first cell in
\* row-major order
plain_sweep_move(b, depth, symbol, opponent_symbol) ==
    LET scored == {<<x, plain_minimax(Place(b, symbol, x[1], x[2]), depth - 1, FALSE,
                                      symbol, opponent_symbol)>> : x \in ValidMoves(b)}
        best == CHOOSE p \in scored :
                    \A q \in scored :
                        \/ q[2] < p[2]
                        \/ (q[2] = p[2] /\ RowMajor(p[1]) <= RowMajor(q[1]))
    IN  IF ValidMoves(b) = {} THEN None ELSE best[1]

\* a straight line of win_length cells holding symbol, in any of the 8 directions
HasLine(b, symbol) ==
    \E r \in Rng, c \in Rng :
        /\ b[r][c] = symbol
        /\ \E dr \in {-1, 0, 1}, dc \in {-1, 0, 1} :
            /\ <<dr, dc>> # <<0, 0>>
            /\ \A k \in 0 .. (win_length - 1) :
                /\ InBounds(r + k * dr, c + k * dc)
                /\ b[r + k * dr][c + k * dc] = symbol

\* the first cell in row-major order among cells
FirstCell(cells) == CHOOSE x \in cells : \A y \in cells : RowMajor(x) <= RowMajor(y)

\* the valid cell on which placing symbol gives the greatest evaluation for
\* symbol, ties to the first cell in row-major order
max_scoring_cell(b, symbol) ==
    LET scored == {<<x, evaluate_board(Place(b, symbol, x[1], x[2]), symbol)>> :
                       x \in ValidMoves(b)}
        top == CHOOSE v \in {p[2] : p \in scored} : \A q \in scored : q[2] <= v
    IN  FirstCell({p[1] : p \in {q \in scored : q[2] = top}})

\* the valid cell on which placing symbol gives the least evaluation for
\* symbol, ties to the first cell in row-major order
min_scoring_cell(b, symbol) ==
    LET scored == {<<x, evaluate_board(Place(b, symbol, x[1], x[2]), symbol)>> :
                       x \in ValidMoves(b)}
        bottom == CHOOSE v \in {p[2] : p \in scored} : \A q \in scored : v <= q[2]
    IN  FirstCell({p[1] : p \in {q \in scored : q[2] = bottom}})

\* the in-bounds cells of the window of 2 * win_length - 1 cells centred on
\* (row, col) along the axis (dr, dc)
AxisCells(row, col, dr, dc) ==
    {<<row + dr * i, col + dc * i>> : i \in (1 - win_length) .. (win_length - 1)}
        \cap (Rng \X Rng)

\* the number of cells holding one of kinds in the windows of the four axes
WindowMarks(b, row, col, kinds) ==
    Cardinality({x \in AxisCells(row, col, 1, 0) : b[x[1]][x[2]] \in kinds})
    + Cardinality({x \in AxisCells(row, col, 0, 1) : b[x[1]][x[2]] \in kinds})
    + Cardinality({x \in AxisCells(row, col, 1, 1) : b[x[1]][x[2]] \in kinds})
    + Cardinality({x \in AxisCells(row, col, 1, -1) : b[x[1]][x[2]] \in kinds})

\* the empty cells among the eight neighbours
EmptyNeighbours(b, row, col) ==
    Cardinality({x \in Rng \X Rng :
        /\ x # <<row, col>>
        /\ Abs(x[1] - row) <= 1
        /\ Abs(x[2] - col) <= 1
        /\ b[x[1]][x[2]] = Empty})

\* what a cell owned by symbol adds to the evaluation for symbol
OwnTerm(b, x, symbol) ==
    LET center == board_size \div 2
        distance == Abs(x[1] - center) + Abs(x[2] - center)
    IN  WindowMarks(b, x[1], x[2], {symbol})
        + (IF distance < 5 THEN 5 - distance ELSE 0)
        + EmptyNeighbours(b, x[1], x[2])
        + WindowMarks(b, x[1], x[2], {symbol, Empty})

RECURSIVE SumOwn(_, _, _)
SumOwn(b, cells, symbol) ==
    IF cells = {} THEN 0
    ELSE LET x == CHOOSE y \in cells : TRUE
         IN  OwnTerm(b, x, symbol) + SumOwn(b, cells \ {x}, symbol)

RECURSIVE SumWindowMarks(_, _, _)
SumWindowMarks(b, cells, symbol) ==
    IF cells = {} THEN 0
    ELSE LET x == CHOOSE y \in cells : TRUE
         IN  WindowMarks(b, x[1], x[2], {symbol}) + SumWindowMarks(b, cells \ {x}, symbol)

\* the evaluation as the sum over the cells of symbol less the sum over the
\* cells of its opponent
EvaluationFormula(b, symbol) ==
    LET opponent == IF symbol = "X" THEN "O" ELSE "X"
        owned(m) == {x \in Rng \X Rng : b[x[1]][x[2]] = m}
    IN  SumOwn(b, owned(symbol), symbol) - SumWindowMarks(b, owned(opponent), opponent)

\* both players are AI-controlled with one of the four strategies, and the
\* time limit is positive
AiGame ==
    /\ \A p \in {1, 2} : ai_type[p] \in {"random", "greedy", "worst", "expert"}
    /\ ai_time_limit > 0

-----------------------------------------------------------------------------
(* Properties *)

\* C1: the board when get_ai_move returns is cell-for-cell the board when it
\* was called, for every strategy: each step of the call, and its return,
\* leaves the board as it found it.
C1_BoardRestored ==
    [][(pc \in {"loop", "search"} /\ pc' \in {"search", "chosen", "done"}
        /\ ai_type[current_player] # "human") => board' = board]_vars

\* a depth-3 sweep over four empty cells that pruned and was then cut off by
\* the deadline
C1_Witness ==
    /\ pc = "search"
    /\ search.depth = 4
    /\ search.cut
    /\ Count(board, Empty) = 4
    /\ nodes_expanded > 0

\* C2: a sweep that no deadline cut short has, as it ends, selected the move
\* the same sweep selects over plain, unpruned minimax (ties: first cell in
\* row-major order).
C2_PrunedEqualsPlain ==
    (pc = "search" /\ search.depth > 1 /\ ~search.cut
     /\ search.elapsed < ai_time_limit) =>
        search.current_best_move =
            plain_sweep_move(board, search.depth - 1, SymbolOf(current_player),
                             SymbolOf(Other(current_player)))

\* sweeps of depth 1, 2, 3 over four empty cells ran uncut, and pruned: an
\* unpruned search would have counted 2*k*(k-1) + k*(k-1)*(k-2) nodes
C2_Witness ==
    /\ pc = "search"
    /\ search.depth = 4
    /\ ~search.cut
    /\ Count(board, Empty) = 4
    /\ nodes_expanded < 2 * 4 * 3 + 4 * 3 * 2

\* C3 (as claimed): a sweep the deadline interrupted never overwrites
\* best_move, which stays the move of the sweep before it.
C3_InterruptedSweepDiscarded ==
    (pc = "search" /\ search.cut) => search.best_move = search.prev_best

\* C4 (as claimed): with ai_time_limit = 0 on a board with an empty cell,
\* iterative_deepening has completed the depth-1 sweep when it returns, and
\* returns a move.
C4_ZeroLimitStillMoves ==
    (/\ ai_time_limit = 0
     /\ pc \in {"chosen", "done"}
     /\ search.depth >= 1
     /\ ~is_full(board)) => (search.depth >= 2 /\ move # None)

\* C5: check_win holds of a symbol exactly when some straight line of
\* win_length cells, wherever it lies and in whichever direction it is read,
\* holds that symbol.
C5_WinIffLine ==
    \A symbol \in Symbols : check_win(board, symbol) <=> HasLine(board, symbol)

\* a run of exactly win_length on the anti-diagonal out of the bottom-left
\* corner of a 4x4 board with win_length 3, and no line of the other symbol
C5_Witness ==
    /\ board_size = 4
    /\ Count(board, "X") = win_length
    /\ \A k \in 0 .. (win_length - 1) : board[board_size - 1 - k][k] = "X"
    /\ check_win(board, "X")
    /\ Count(board, "O") = 1
    /\ ~check_win(board, "O")

\* C6: make_move writes the player's symbol to exactly the cell named and
\* succeeds when the cell is in bounds and empty, and otherwise fails and
\* leaves the board as it was; a pass of the turn loop that rejects its move
\* changes neither the board nor the current player.
C6_MoveAppliesIffValid ==
    /\ [](pc \in {"loop", "chosen"} =>
            \A x \in HumanInputs :
                LET m == make_move(board, SymbolOf(current_player), x[1], x[2])
                IN  IF InBounds(x[1], x[2]) /\ board[x[1]][x[2]] = Empty
                    THEN /\ m.ok
                         /\ m.board[x[1]][x[2]] = SymbolOf(current_player)
                         /\ \A y \in Rng \X Rng :
                                y # x => m.board[y[1]][y[2]] = board[y[1]][y[2]]
                    ELSE ~m.ok /\ m.board = board)
    /\ [][(pc \in {"loop", "chosen"} /\ last' = "rejected") =>
            (board' = board /\ current_player' = current_player /\ pc' = "loop")]_vars

\* a move was rejected on a board that holds marks
C6_Witness ==
    /\ last = "rejected"
    /\ pc = "loop"
    /\ Count(board, Empty) < board_size * board_size - 1

\* C7: on every board and for every empty cell in bounds, the cell is not a
\* valid move right after a mark is placed there, is one again right after
\* the retraction, and the board is then the board before the placement.
C7_PlaceRetractRoundTrip ==
    \A x \in ValidMoves(board), symbol \in Symbols :
        LET m == make_move(board, symbol, x[1], x[2])
        IN  /\ m.ok
            /\ ~is_valid_move(m.board, x[1], x[2])
            /\ is_valid_move(Retract(m.board, x[1], x[2]), x[1], x[2])
            /\ Retract(m.board, x[1], x[2]) = board

\* greedy_ai has placed and retracted on every empty cell of a board with
\* marks, and its move was applied
C7_Witness ==
    /\ pc = "loop"
    /\ last = "applied"
    /\ ai_type[Other(current_player)] = "greedy"
    /\ Count(board, Empty) \in 1 .. (board_size * board_size - 3)

\* C8: Draw is announced exactly when the game ended on an applied move that
\* left the board full with no line of either symbol; a move that fills the
\* board and completes a line is a win.
C8_DrawExactly ==
    /\ outcome = "Draw" <=>
          (/\ pc = "done"
           /\ last = "applied"
           /\ is_full(board)
           /\ ~HasLine(board, "X")
           /\ ~HasLine(board, "O"))
    /\ (pc = "done" /\ last = "applied" /\ is_full(board)
        /\ HasLine(board, SymbolOf(current_player))) =>
          outcome = Win(current_player)

\* a full 3x3 board without a line
C8_Witness == outcome = "Draw" /\ board_size = 3

\* C9 (as claimed): the first player holds as many marks as the second, or
\* one more.
C9_TurnsAlternate ==
    pc # "setup" => Count(board, "X") - Count(board, "O") \in {0, 1}

\* C10: with an AI-controlled first player the game's first mark is 'X' on
\* the centre cell, there before any strategy has been consulted and any
\* other mark placed; with a human first player the board is empty until the
\* turn loop has applied a move.
C10_OpeningAtCentre ==
    pc # "setup" =>
        LET center == board_size \div 2
        IN  IF ai_type[1] # "human"
            THEN /\ last # "none"
                 /\ board[center][center] = "X"
                 /\ last = "opening" =>
                        board = Place(EmptyBoard(board_size), "X", center, center)
                 /\ (pc = "loop" /\ last = "opening") =>
                        (move = None /\ search = Idle /\ nodes_expanded = 0)
            ELSE /\ last # "opening"
                 /\ last = "none" => board = EmptyBoard(board_size)

\* the first strategy call of an AI-controlled first player has returned and
\* the board holds the opening mark alone
C10_Witness ==
    /\ board_size = 3
    /\ last = "opening"
    /\ pc = "chosen"

\* C11: random_ai, greedy_ai and worst_ai return no move exactly when the
\* board is full; a move they return is in bounds and on an empty cell of the
\* board as the call leaves it, so make_move succeeds on it.
C11_OnePlyMoveValid ==
    (pc \in {"chosen", "done"}
     /\ ai_type[current_player] \in {"random", "greedy", "worst"}) =>
        /\ move = None <=> is_full(board)
        /\ move # None =>
              /\ InBounds(move[1], move[2])
              /\ board[move[1]][move[2]] = Empty
              /\ make_move(board, SymbolOf(current_player), move[1], move[2]).ok

\* greedy_ai was asked on a full board and returned no move
C11_Witness ==
    /\ pc = "done"
    /\ last = "nomove"
    /\ ai_type[current_player] = "greedy"
    /\ is_full(board)
    /\ move = None

\* C12 (as claimed): get_ai_move returns no move, for any of the four strategy
\* tags, only on a full board, and the game then ends with the outcome Draw.
C12_NoMoveOnlyWhenFull ==
    (pc = "done" /\ last = "nomove"
     /\ ai_type[current_player] \in {"random", "greedy", "worst", "expert"}) =>
        (is_full(board) /\ outcome = "Draw")

\* C13 (as claimed): once beta <= alpha has held in a minimax node, no further
\* cell of that node is placed and recursed on.
C13_PruneStopsNode ==
    pc = "search" => search.late = 0

\* C14 (as claimed): nodes_expanded counts every cell minimax has placed and
\* recursed on, the cell whose value triggers the cutoff included.
C14_EveryVisitCounted ==
    pc = "search" => nodes_expanded = search.visited

\* C15: on a board that is not full greedy_ai returns the valid cell whose
\* placement gives the greatest evaluation for the mover, the first such cell
\* in row-major order when several share it.
C15_GreedyMaximises ==
    (pc = "chosen" /\ ai_type[current_player] = "greedy") =>
        move = max_scoring_cell(board, SymbolOf(current_player))

\* greedy_ai chose on a board with marks where a later cell scores as much
\* as the cell chosen
C15_Witness ==
    /\ pc = "chosen"
    /\ ai_type[current_player] = "greedy"
    /\ Count(board, Empty) < board_size * board_size - 1
    /\ \E x \in ValidMoves(board) :
        /\ RowMajor(x) > RowMajor(move)
        /\ evaluate_board(Place(board, SymbolOf(current_player), x[1], x[2]),
                          SymbolOf(current_player))
           = evaluate_board(Place(board, SymbolOf(current_player), move[1], move[2]),
                            SymbolOf(current_player))

\* C16: on an empty board greedy_ai for 'X' returns the cell
\* (board_size // 2, board_size // 2), which on the 15x15 board is (7, 7).
C16_GreedyOpensAtCentre ==
    (/\ pc = "chosen"
     /\ ai_type[current_player] = "greedy"
     /\ current_player = 1
     /\ board = EmptyBoard(board_size)) =>
        move = <<board_size \div 2, board_size \div 2>>

\* greedy_ai for 'X' answered (7, 7) on the empty 15x15 board with win_length 5
C16_Witness ==
    /\ board_size = 15
    /\ win_length = 5
    /\ pc = "chosen"
    /\ ai_type[current_player] = "greedy"
    /\ current_player = 1
    /\ board = EmptyBoard(board_size)
    /\ move = <<7, 7>>

\* C17: the move of a player with strategy Worst is the valid cell on which
\* placing the opponent's symbol gives the least evaluation for the opponent,
\* the first such cell in row-major order.
C17_WorstMinimisesOpponent ==
    (pc = "chosen" /\ ai_type[current_player] = "worst") =>
        move = min_scoring_cell(board, SymbolOf(Other(current_player)))

\* worst_ai chose on a board holding both symbols, and not the cell the same
\* rule would give with the mover's own symbol
C17_Witness ==
    /\ pc = "chosen"
    /\ ai_type[current_player] = "worst"
    /\ Count(board, "X") > 0
    /\ Count(board, "O") > 0
    /\ move # min_scoring_cell(board, SymbolOf(current_player))

\* C18: evaluate_board(symbol) is the sum, over the cells of symbol, of the
\* marks of symbol in the four axis windows, the centre term max(0, 5 -
\* Manhattan distance to the centre), the empty neighbours and the cells of the
\* windows that hold symbol or are empty, less the sum, over the opponent's
\* cells, of the opponent's marks in the four axis windows.
C18_EvaluationFormula ==
    \A symbol \in Symbols : evaluate_board(board, symbol) = EvaluationFormula(board, symbol)

\* a 4x4 board with one 'X' and three 'O' whose evaluation for 'X' is negative
C18_Witness ==
    /\ board_size = 4
    /\ Count(board, "X") = 1
    /\ Count(board, "O") = 3
    /\ evaluate_board(board, "X") < 0
    /\ evaluate_board(board, "X") = EvaluationFormula(board, "X")

\* C19: a game between two AI-controlled players (random, greedy, worst, or
\* expert with a positive time limit) reaches the end of play(); every move
\* such a player hands to the turn loop is applied and fills exactly one
\* cell that was empty, so at most board_size * board_size moves are applied.
C19_AiGamesTerminate ==
    /\ (pc = "loop" /\ AiGame) ~> (pc = "done")
    /\ [][(pc = "chosen" /\ AiGame) =>
            (/\ last' = "applied"
             /\ Count(board', Empty) = Count(board, Empty) - 1
             /\ \A x \in Rng \X Rng :
                    board[x[1]][x[2]] # Empty => board'[x[1]][x[2]] = board[x[1]][x[2]])]_vars

\* a game of two AI-controlled players on the 3x3 board, the second one
\* greedy, ended in a draw on the full board
C19_Witness ==
    /\ AiGame
    /\ ai_type[2] = "greedy"
    /\ pc = "done"
    /\ outcome = "Draw"
    /\ board_size = 3
    /\ is_full(board)

\* C20: while play() has declared no outcome (win_length >= 2), neither
\* symbol has a line of win_length on the board; a win is declared for the
\* player whose move completed the line, on that very move, and once play()
\* has ended the board is never written again.
C20_NoLineWhileInProgress ==
    /\ []((pc \in {"loop", "search", "chosen"} /\ win_length >= 2) =>
            (/\ outcome = "InProgress"
             /\ ~HasLine(board, "X")
             /\ ~HasLine(board, "O")))
    /\ [](outcome \in {"WinX", "WinO"} =>
            (/\ pc = "done"
             /\ outcome = Win(current_player)
             /\ HasLine(board, SymbolOf(current_player))
             /\ ~HasLine(board, SymbolOf(Other(current_player)))))
    /\ [][pc = "done" => (pc' = "done" /\ board' = board)]_vars

\* 'O' completed a line on the 3x3 board and the game stopped with cells
\* still empty
C20_Witness ==
    /\ board_size = 3
    /\ outcome = "WinO"
    /\ pc = "done"
    /\ ~is_full(board)
    /\ HasLine(board, "O")

====
